---- MODULE Spec2Model ----
(***************************************************************************)
(* Model of the city / micro market description generator (src/app.py)     *)
(* and of the city news generator (src/ap.py).                             *)
(*                                                                         *)
(* A Python str is a sequence of tokens.  A token is either one            *)
(* significant character ("{", "}", "*", "-", " ", "\n", "'") or a word:   *)
(* a run of characters that holds no newline and neither starts nor ends   *)
(* with a significant character.  Every string operation of the code that  *)
(* the model uses (format, strip, split, startswith, endswith, slicing,    *)
(* join, concatenation) looks only at significant characters, so it acts   *)
(* on token sequences as it acts on the characters.                        *)
(***************************************************************************)
EXTENDS Integers, Sequences, FiniteSets, TLC

VARIABLES
    gen,        \* the last generation call that ended: its inputs and what it did
    docx,       \* the last call of create_docx: its inputs and the document
    csv,        \* the last call of a CSV helper: its inputs and its result
    pc,         \* "idle", or "calling" while a request is with the collaborator
    session,    \* st.session_state of app.py: the slots that are set
    inflight,   \* the generation calls that wait for the collaborator
    shown,      \* how the script presented the result of the last call
    calls       \* generation calls started by the last submission

vars == <<gen, docx, csv, pc, session, inflight, shown, calls>>

(***************************************************************************)
(* Bounds of the model.                                                    *)
(***************************************************************************)
MaxPieces == 3

(***************************************************************************)
(* Strings.                                                                *)
(***************************************************************************)
SeqsUpTo(S, n) == UNION {[1..k -> S] : k \in 0..n}

RECURSIVE Flatten(_)
Flatten(ss) == IF ss = <<>> THEN <<>> ELSE Head(ss) \o Flatten(Tail(ss))

Whitespace == {" ", "\n"}

RECURSIVE LStrip(_)
LStrip(s) == IF s # <<>> /\ Head(s) \in Whitespace THEN LStrip(Tail(s)) ELSE s

RECURSIVE RStrip(_)
RStrip(s) ==
    IF s # <<>> /\ s[Len(s)] \in Whitespace
    THEN RStrip(SubSeq(s, 1, Len(s) - 1))
    ELSE s

\* str.strip()
Strip(s) == RStrip(LStrip(s))

\* str.startswith(p)
StartsWith(s, p) == Len(s) >= Len(p) /\ SubSeq(s, 1, Len(p)) = p

\* str.endswith(p)
EndsWith(s, p) == Len(s) >= Len(p) /\ SubSeq(s, Len(s) - Len(p) + 1, Len(s)) = p

\* sep.join(list)
RECURSIVE Join(_, _)
Join(list, sep) ==
    IF list = <<>> THEN <<>>
    ELSE IF Len(list) = 1 THEN list[1]
    ELSE list[1] \o sep \o Join(Tail(list), sep)

(***************************************************************************)
(* str.format with keyword fields, as the three generation functions use   *)
(* it to compose a prompt.  The string is read left to right, one markup   *)
(* item at a time; a fault is raised where the reading meets it, so a      *)
(* missing field that comes before a syntax fault raises KeyError.         *)
(***************************************************************************)
SingleClose == <<"Single '}' encountered in format string">>
SingleOpen == <<"Single '{' encountered in format string">>
ExpectedClose == <<"expected '}' before end of string">>
UnexpectedOpen == <<"unexpected '{' in field name">>
IndexOutOfRange == <<"Replacement index 0 out of range for positional args tuple">>

\* The first brace at or after position j of t, or 0 when there is none.
RECURSIVE FirstBrace(_, _)
FirstBrace(t, j) ==
    IF j > Len(t) THEN 0
    ELSE IF t[j] \in {"{", "}"} THEN j
    ELSE FirstBrace(t, j + 1)

\* The markup items of format string t from position i on: literal tokens,
\* replacement fields, and the syntax fault (if any) that ends the reading.
RECURSIVE MarkupItems(_, _)
MarkupItems(t, i) ==
    IF i > Len(t) THEN <<>>
    ELSE IF t[i] = "}" THEN
        IF i < Len(t) /\ t[i + 1] = "}"
        THEN <<[kind |-> "lit", tok |-> "}"]>> \o MarkupItems(t, i + 2)
        ELSE <<[kind |-> "fault", msg |-> SingleClose]>>
    ELSE IF t[i] = "{" THEN
        IF i = Len(t) THEN <<[kind |-> "fault", msg |-> SingleOpen]>>
        ELSE IF t[i + 1] = "{"
        THEN <<[kind |-> "lit", tok |-> "{"]>> \o MarkupItems(t, i + 2)
        ELSE LET j == FirstBrace(t, i + 1)
             IN  IF j = 0 THEN <<[kind |-> "fault", msg |-> ExpectedClose]>>
                 ELSE IF t[j] = "{" THEN <<[kind |-> "fault", msg |-> UnexpectedOpen]>>
                 ELSE <<[kind |-> "field", name |-> SubSeq(t, i + 1, j - 1)]>>
                      \o MarkupItems(t, j + 1)
    ELSE <<[kind |-> "lit", tok |-> t[i]]>> \o MarkupItems(t, i + 1)

\* The value of one replacement field: a keyword argument, or the fault of
\* looking it up ("{}" asks for positional argument 0, and there is none).
FieldValueCityOnly(item, fields) ==
    IF item.name = <<>> THEN [kind |-> "raise", exc |-> "IndexError", msg |-> IndexOutOfRange]
    ELSE IF item.name \notin DOMAIN fields
    THEN [kind |-> "raise", exc |-> "KeyError", msg |-> <<"'">> \o item.name \o <<"'">>]
    ELSE IF item.name # <<"city">>
    THEN [kind |-> "ok", text |-> <<"{">> \o item.name \o <<"}">>]
    ELSE [kind |-> "ok", text |-> fields[item.name]]

FieldValueLenient(item, fields) ==
    IF item.name = <<>> \/ item.name \notin DOMAIN fields
    THEN [kind |-> "ok", text |-> <<"{">> \o item.name \o <<"}">>]
    ELSE [kind |-> "ok", text |-> fields[item.name]]

FieldValue(item, fields) ==
    IF item.name = <<>> THEN [kind |-> "raise", exc |-> "IndexError", msg |-> IndexOutOfRange]
    ELSE IF item.name \notin DOMAIN fields
    THEN [kind |-> "raise", exc |-> "KeyError", msg |-> <<"'">> \o item.name \o <<"'">>]
    ELSE [kind |-> "ok", text |-> fields[item.name]]

RECURSIVE FormatItems(_, _, _)
FormatItems(items, fields, acc) ==
    IF items = <<>> THEN [kind |-> "ok", text |-> acc]
    ELSE LET it == Head(items)
         IN  CASE it.kind = "lit" -> FormatItems(Tail(items), fields, Append(acc, it.tok))
               [] it.kind = "fault" -> [kind |-> "raise", exc |-> "ValueError", msg |-> it.msg]
               [] it.kind = "field" ->
                    LET v == FieldValue(it, fields)
                    IN  IF v.kind = "raise" THEN v
                        ELSE FormatItems(Tail(items), fields, acc \o v.text)

\* prompt.format with keyword fields: [kind |-> "ok", text] or
\* [kind |-> "raise", exc, msg]
Format(prompt, fields) == FormatItems(MarkupItems(prompt, 1), fields, <<>>)

(***************************************************************************)
(* The remote collaborator, gemini_client.models.generate_content: it      *)
(* raises an error, or returns a response whose text is missing (None), or *)
(* returns a response with a text.                                         *)
(***************************************************************************)
RemoteErrors == {"ClientError", "ServerError"}

RemoteMessages == {<<>>, <<"429 RESOURCE_EXHAUSTED">>}

RemoteTexts ==
    { <<>>,
      <<"**", "Gurgaon City Description", "**">>,
      <<" ", "Gurgaon is a city", "\n">>,
      <<"Error", " rates of the metro fell">>,
      <<"No relevant news found", " for Gurgaon">> }

Outcomes ==
    {[kind |-> "raise", exc |-> e, msg |-> m] : e \in RemoteErrors, m \in RemoteMessages}
    \cup {[kind |-> "no_text"]}
    \cup {[kind |-> "text", text |-> t] : t \in RemoteTexts}

NoOutcome == [kind |-> "unused"]

\* The classes "except Exception" catches: every fault the try body can raise.
Exceptions == {"KeyError", "IndexError", "ValueError", "AttributeError"} \cup RemoteErrors

CaughtRemoteOnly(exc) == exc \in RemoteErrors

Caught(exc) == exc \in Exceptions

NoneHasNoStrip == <<"'NoneType' object has no attribute 'strip'">>

\* generate_content(contents=query, ...) followed by response.text.strip()
Generate(query, outcome) ==
    CASE outcome.kind = "raise" ->
            [kind |-> "raise", exc |-> outcome.exc, msg |-> outcome.msg]
      [] outcome.kind = "no_text" ->
            [kind |-> "raise", exc |-> "AttributeError", msg |-> NoneHasNoStrip]
      [] outcome.kind = "text" ->
            [kind |-> "return", value |-> Strip(outcome.text)]

\* What one call of a generation function did: the requests it sent to the
\* collaborator, the class of the fault raised in its try body ("none" when
\* there was none), and how it ended: [kind |-> "return", value], or
\* [kind |-> "raise", exc, msg] for a fault that leaves the function.
Ended(prefix, query, body) ==
    [request |-> IF query.kind = "ok" THEN <<query.text>> ELSE <<>>,
     raised |-> IF body.kind = "raise" THEN body.exc ELSE "none",
     result |-> IF body.kind = "raise" /\ Caught(body.exc)
                THEN [kind |-> "return", value |-> prefix \o body.msg]
                ELSE body]

ErrorGeneratingCity == <<"Error", " generating city description: ">>
ErrorGeneratingMicromarket == <<"Error", " generating micro market description: ">>
ErrorFetchingNews == <<"Error", " fetching news: ">>

create_city_description(prompt, city, outcome) ==
    LET full_query == Format(prompt, [n \in {<<"city">>} |-> city])
        body == IF full_query.kind = "raise" THEN full_query
                ELSE Generate(full_query.text, outcome)
    IN  Ended(ErrorGeneratingCity, full_query, body)

LocalitiesToFocusOn == <<"\n", "Localities to focus on: ">>

\* The localities argument is [none |-> TRUE] for None and
\* [none |-> FALSE, list |-> <<...>>] for a list of strings.
NoLocalities == [none |-> TRUE]

StripAll(list) == [i \in 1..Len(list) |-> Strip(list[i])]

NonBlank(loc) == Strip(loc) # <<>>

LocalitiesTextUntrimmed(localities) ==
    IF localities.none \/ localities.list = <<>> THEN <<>>
    ELSE LET localities_list == SelectSeq(localities.list, NonBlank)
         IN  IF localities_list = <<>> THEN <<>>
             ELSE LocalitiesToFocusOn \o Join(localities_list, <<",", " ">>)

LocalitiesText(localities) ==
    IF localities.none \/ localities.list = <<>> THEN <<>>
    ELSE LET localities_list == StripAll(SelectSeq(localities.list, NonBlank))
         IN  IF localities_list = <<>> THEN <<>>
             ELSE LocalitiesToFocusOn \o Join(localities_list, <<",", " ">>)

MicromarketFields(city, micromarket, localities) ==
    [n \in {<<"city">>, <<"micromarket">>, <<"localities">>} |->
        CASE n = <<"city">> -> city
          [] n = <<"micromarket">> -> micromarket
          [] n = <<"localities">> -> LocalitiesText(localities)]

create_micromarket_description(prompt, city, micromarket, localities, outcome) ==
    LET full_query == Format(prompt, MicromarketFields(city, micromarket, localities))
        body == IF full_query.kind = "raise" THEN full_query
                ELSE Generate(full_query.text, outcome)
    IN  Ended(ErrorGeneratingMicromarket, full_query, body)

categories == <<"\n", "new infrastructure developments ... civic security concerns", "\n">>

NewsFields(city, start_date, end_date) ==
    [n \in {<<"start_date">>, <<"end_date">>, <<"city">>, <<"categories">>} |->
        CASE n = <<"start_date">> -> start_date
          [] n = <<"end_date">> -> end_date
          [] n = <<"city">> -> city
          [] n = <<"categories">> -> categories]

fetch_news(city, start_date, end_date, prompt, outcome) ==
    LET query == Format(prompt, NewsFields(city, start_date, end_date))
        body == IF query.kind = "raise" THEN query
                ELSE Generate(query.text, outcome)
    IN  Ended(ErrorFetchingNews, query, body)

(***************************************************************************)
(* Inputs of the generation functions.  A prompt template is up to         *)
(* MaxPieces pieces put end to end: single braces, a plain word, and whole *)
(* placeholders, so the set holds every brace pattern up to MaxPieces      *)
(* tokens and templates with several placeholders.                         *)
(***************************************************************************)
TemplatePieces ==
    { <<"{">>, <<"}">>, <<"x">>, <<"{", "city", "}">>, <<"{", "localities", "}">> }

Templates == {Flatten(ps) : ps \in SeqsUpTo(TemplatePieces, MaxPieces)}

CityValues == { <<"Gurgaon">>, <<"{", "city", "}">> }

MicromarketValues == { <<"Golf Course Road">> }

MaxLocalities == 2

LocalityEntries == { <<" ">>, <<"Sector 54">>, <<" ", "Cyber Hub", " ">> }

LocalityLists ==
    {NoLocalities}
    \cup {[none |-> FALSE, list |-> l] : l \in SeqsUpTo(LocalityEntries, MaxLocalities)}

\* datetime.now() and the two time frames, as strftime("%Y-%m-%d") gives them.
Today == <<"2026-11-06">>
WeekAgo == <<"2026-10-30">>
DayAgo == <<"2026-11-05">>

(***************************************************************************)
(* SpecGen: one call of a generation function, on any template and field   *)
(* values, against any behaviour of the collaborator.                      *)
(***************************************************************************)
GenIdle == [fn |-> "none"]
DocxIdle == [fn |-> "none"]
CsvIdle == [fn |-> "none"]
NoCall == {}
NothingShown == [kind |-> "none"]
EmptySession == [slot \in {} |-> <<>>]

OthersIdle ==
    /\ pc = "idle"
    /\ session = EmptySession
    /\ inflight = NoCall
    /\ shown = NothingShown
    /\ calls = 0

GenRecord(fn, prompt, city, micromarket, localities, outcome, call) ==
    [fn |-> fn, prompt |-> prompt, city |-> city, micromarket |-> micromarket,
     localities |-> localities,
     outcome |-> IF call.request = <<>> THEN NoOutcome ELSE outcome,
     call |-> call]

appVars == <<pc, session, inflight, shown, calls>>

CallCityDescription ==
    /\ gen = GenIdle
    /\ \E prompt \in Templates, city \in CityValues, outcome \in Outcomes :
        gen' = GenRecord("create_city_description", prompt, city, <<>>, NoLocalities,
                         outcome, create_city_description(prompt, city, outcome))
    /\ UNCHANGED <<docx, csv, appVars>>

CallMicromarketDescription ==
    /\ gen = GenIdle
    /\ \E prompt \in Templates, city \in CityValues, micromarket \in MicromarketValues,
          localities \in LocalityLists, outcome \in Outcomes :
        gen' = GenRecord("create_micromarket_description", prompt, city, micromarket,
                         localities, outcome,
                         create_micromarket_description(prompt, city, micromarket,
                                                        localities, outcome))
    /\ UNCHANGED <<docx, csv, appVars>>

CallFetchNews ==
    /\ gen = GenIdle
    /\ \E prompt \in Templates, city \in CityValues, outcome \in Outcomes :
        gen' = GenRecord("fetch_news", prompt, city, <<>>, NoLocalities, outcome,
                         fetch_news(city, WeekAgo, Today, prompt, outcome))
    /\ UNCHANGED <<docx, csv, appVars>>

InitGen == gen = GenIdle /\ docx = DocxIdle /\ csv = CsvIdle /\ OthersIdle

NextGen ==
    \/ CallCityDescription
    \/ CallMicromarketDescription
    \/ CallFetchNews

SpecGen == InitGen /\ [][NextGen]_vars

(***************************************************************************)
(* Properties of the generation functions (SpecGen).                       *)
(***************************************************************************)
Called == gen.fn # "none"

ErrorPrefixOf(fn) ==
    CASE fn = "create_city_description" -> ErrorGeneratingCity
      [] fn = "create_micromarket_description" -> ErrorGeneratingMicromarket
      [] fn = "fetch_news" -> ErrorFetchingNews

\* The field mapping the called function hands to format.
FieldsOf(g) ==
    CASE g.fn = "create_city_description" -> [n \in {<<"city">>} |-> g.city]
      [] g.fn = "create_micromarket_description" ->
            MicromarketFields(g.city, g.micromarket, g.localities)
      [] g.fn = "fetch_news" -> NewsFields(g.city, WeekAgo, Today)

\* C1: for each generation function and each way the collaborator can fail
\* (it raises an error, or its response has no text), the call returns a
\* failure text that is not empty and starts with the function's error
\* prefix; and no call, however it goes, ends with a fault leaving the function.
C1_FailureNeverEscapes ==
    Called =>
        /\ gen.call.result.kind = "return"
        /\ gen.outcome.kind \in {"raise", "no_text"} =>
            /\ gen.call.raised # "none"
            /\ gen.call.result.value # <<>>
            /\ StartsWith(gen.call.result.value, ErrorPrefixOf(gen.fn))
        /\ gen.outcome.kind = "raise" =>
            gen.call.result.value = ErrorPrefixOf(gen.fn) \o gen.outcome.msg

C1_Witness ==
    /\ gen.fn = "fetch_news"
    /\ gen.outcome = [kind |-> "no_text"]
    /\ gen.call.raised = "AttributeError"
    /\ gen.call.result = [kind |-> "return", value |-> ErrorFetchingNews \o NoneHasNoStrip]

\* The placeholders the reading of a template meets (up to its first syntax
\* fault) that the field mapping of the call does not supply.
MissingIn(g) ==
    {i \in 1..Len(MarkupItems(g.prompt, 1)) :
        /\ MarkupItems(g.prompt, 1)[i].kind = "field"
        /\ MarkupItems(g.prompt, 1)[i].name \notin DOMAIN FieldsOf(g)}

FirstFault(g) ==
    {i \in 1..Len(MarkupItems(g.prompt, 1)) :
        /\ \/ MarkupItems(g.prompt, 1)[i].kind = "fault"
           \/ i \in MissingIn(g)
        /\ \A j \in 1..(i - 1) :
              MarkupItems(g.prompt, 1)[j].kind # "fault" /\ j \notin MissingIn(g)}

\* C3: when the template references a placeholder the field mapping does not
\* supply, the call sends no request and returns a failure text, which holds
\* nothing of the prompt; when that placeholder is a name and the first fault
\* of the template, the fault is KeyError and the text is the error prefix
\* followed by the quoted name.
C3_MissingFieldFails ==
    (Called /\ MissingIn(gen) # {}) =>
        /\ gen.call.request = <<>>
        /\ gen.outcome = NoOutcome
        /\ gen.call.raised \in {"KeyError", "IndexError", "ValueError"}
        /\ gen.call.result.kind = "return"
        /\ StartsWith(gen.call.result.value, ErrorPrefixOf(gen.fn))
        /\ \A i \in FirstFault(gen) :
              LET it == MarkupItems(gen.prompt, 1)[i]
              IN  (it.kind = "field" /\ it.name # <<>>) =>
                    /\ gen.call.raised = "KeyError"
                    /\ gen.call.result.value =
                          ErrorPrefixOf(gen.fn) \o <<"'">> \o it.name \o <<"'">>

C3_Witness ==
    /\ gen.fn = "create_city_description"
    /\ gen.prompt = <<"{", "city", "}", "{", "localities", "}">>
    /\ gen.call.request = <<>>
    /\ gen.call.raised = "KeyError"
    /\ gen.call.result =
          [kind |-> "return",
           value |-> ErrorGeneratingCity \o <<"'", "localities", "'">>]

Braces == {"{", "}"}

RECURSIVE BraceCount(_)
BraceCount(s) ==
    IF s = <<>> THEN 0
    ELSE (IF Head(s) \in Braces THEN 1 ELSE 0) + BraceCount(Tail(s))

\* A brace-delimited name: what an unresolved placeholder looks like.
HasPlaceholderSyntax(s) ==
    \E i, j \in 1..Len(s) :
        /\ i < j
        /\ s[i] = "{" /\ s[j] = "}"
        /\ \A k \in (i + 1)..(j - 1) : s[k] \notin Braces

\* The braces a composed prompt owes to its template and field values: one
\* for each escaped brace, and those of the value of each placeholder.
RECURSIVE OwedBraces(_, _)
OwedBraces(items, fields) ==
    IF items = <<>> THEN 0
    ELSE LET it == Head(items)
         IN  (CASE it.kind = "lit" -> IF it.tok \in Braces THEN 1 ELSE 0
                [] it.kind = "field" -> BraceCount(fields[it.name])
                [] OTHER -> 0)
             + OwedBraces(Tail(items), fields)

Composed == Called /\ gen.call.request # <<>>

EscapesBrace(prompt) ==
    \E i \in 1..Len(MarkupItems(prompt, 1)) :
        /\ MarkupItems(prompt, 1)[i].kind = "lit"
        /\ MarkupItems(prompt, 1)[i].tok \in Braces

\* C4 as stated, on the templates that escape no brace: whenever every
\* placeholder of the template is supplied and composing succeeds, the prompt
\* holds no brace-delimited name, whatever the field values are (values that
\* hold a brace-delimited name included).
C4_NoPlaceholderSyntax ==
    (Composed /\ ~EscapesBrace(gen.prompt)) =>
        ~HasPlaceholderSyntax(gen.call.request[1])

\* C4 as amended: whenever every placeholder of the template is supplied and
\* composing succeeds, every placeholder is replaced: the prompt holds
\* exactly the braces of the field values put in and of the escaped braces
\* of the template, so none at all when there are no such.
C4_OnlyOwedBraces ==
    Composed =>
        BraceCount(gen.call.request[1]) =
            OwedBraces(MarkupItems(gen.prompt, 1), FieldsOf(gen))

C4_Witness ==
    /\ gen.fn = "create_micromarket_description"
    /\ gen.prompt = <<"{", "city", "}", "{", "localities", "}", "x">>
    /\ gen.city = <<"Gurgaon">>
    /\ gen.localities = [none |-> FALSE, list |-> <<<<"Sector 54">>>>]
    /\ gen.call.request =
          << <<"Gurgaon", "\n", "Localities to focus on: ", "Sector 54", "x">> >>

\* The trimmed non-blank entries of a locality list, in their order.
RECURSIVE TrimmedEntries(_)
TrimmedEntries(list) ==
    IF list = <<>> THEN <<>>
    ELSE IF Strip(Head(list)) = <<>> THEN TrimmedEntries(Tail(list))
    ELSE <<Strip(Head(list))>> \o TrimmedEntries(Tail(list))

ExpectedLocalities(localities) ==
    IF localities.none THEN <<>>
    ELSE IF TrimmedEntries(localities.list) = <<>> THEN <<>>
    ELSE LocalitiesToFocusOn \o Join(TrimmedEntries(localities.list), <<",", " ">>)

\* C5: create_micromarket_description composes its prompt as the template
\* with {localities} replaced by the empty string when the list is absent,
\* empty or all blank, and otherwise by the trimmed non-blank entries in
\* their order (comma-separated, after the lead-in "Localities to focus on");
\* the list never makes composing fail, and the rest of the template stays.
C5_LocalitiesPlaceholder ==
    (Called /\ gen.fn = "create_micromarket_description") =>
        LET expected ==
                Format(gen.prompt,
                       [n \in {<<"city">>, <<"micromarket">>, <<"localities">>} |->
                            CASE n = <<"city">> -> gen.city
                              [] n = <<"micromarket">> -> gen.micromarket
                              [] n = <<"localities">> -> ExpectedLocalities(gen.localities)])
        IN  /\ expected.kind = "ok" => gen.call.request = <<expected.text>>
            /\ expected.kind = "raise" => gen.call.request = <<>>
            /\ (gen.prompt = <<"x", "{", "localities", "}", "x">>
                /\ ExpectedLocalities(gen.localities) = <<>>)
                    => gen.call.request = << <<"x", "x">> >>

C5_Witness ==
    /\ gen.fn = "create_micromarket_description"
    /\ gen.prompt = <<"x", "{", "localities", "}", "x">>
    /\ gen.localities = [none |-> FALSE, list |-> << <<" ">>, <<" ", "Cyber Hub", " ">> >>]
    /\ gen.call.request =
          << <<"x", "\n", "Localities to focus on: ", "Cyber Hub", "x">> >>

(***************************************************************************)
(* create_docx: the document is the sequence of its paragraphs; fallback    *)
(* tells that the "No descriptions available." branch was taken.            *)
(***************************************************************************)
NormalPt == 11
HeadingPt == 14

NoDescriptionsAvailable == <<"No descriptions available.">>

BoldMarker == <<"*", "*">>
BulletMarker == <<"-", " ">>

\* The position of the first "\n" of s, or 0.
RECURSIVE FirstNewline(_, _)
FirstNewline(s, i) ==
    IF i > Len(s) THEN 0
    ELSE IF s[i] = "\n" THEN i
    ELSE FirstNewline(s, i + 1)

\* combined_text.split('\n')
RECURSIVE SplitLines(_)
SplitLines(s) ==
    LET i == FirstNewline(s, 1)
    IN  IF i = 0 THEN <<s>>
        ELSE <<SubSeq(s, 1, i - 1)>> \o SplitLines(SubSeq(s, i + 1, Len(s)))

Paragraph(text, style, bold, size) ==
    [text |-> text, style |-> style, bold |-> bold, size |-> size]

\* The paragraph emitted for one trimmed, non-empty line.
EmitLineUnstyledBullet(line) ==
    IF StartsWith(line, BoldMarker) /\ EndsWith(line, BoldMarker)
    THEN Paragraph(Strip(SubSeq(line, 3, Len(line) - 2)), "Normal", TRUE, HeadingPt)
    ELSE IF StartsWith(line, BulletMarker)
    THEN Paragraph(Strip(SubSeq(line, 3, Len(line))), "Normal", FALSE, NormalPt)
    ELSE Paragraph(line, "Normal", FALSE, NormalPt)

EmitLine(line) ==
    IF StartsWith(line, BoldMarker) /\ EndsWith(line, BoldMarker)
    THEN Paragraph(Strip(SubSeq(line, 3, Len(line) - 2)), "Normal", TRUE, HeadingPt)
    ELSE IF StartsWith(line, BulletMarker)
    THEN Paragraph(Strip(SubSeq(line, 3, Len(line))), "List Bullet", FALSE, NormalPt)
    ELSE Paragraph(line, "Normal", FALSE, NormalPt)

\* The loop over the lines: blank lines are skipped.
RECURSIVE EmitLines(_)
EmitLines(lines) ==
    IF lines = <<>> THEN <<>>
    ELSE LET line == Strip(Head(lines))
         IN  IF line = <<>> THEN EmitLines(Tail(lines))
             ELSE <<EmitLine(line)>> \o EmitLines(Tail(lines))

CombinedTextNoSeparator(city_description, micromarket_description) ==
    IF city_description # <<>> /\ micromarket_description # <<>>
    THEN city_description \o micromarket_description
    ELSE IF micromarket_description # <<>> THEN micromarket_description
    ELSE city_description

CombinedText(city_description, micromarket_description) ==
    IF city_description # <<>> /\ micromarket_description # <<>>
    THEN city_description \o <<"\n", "\n">> \o micromarket_description
    ELSE IF micromarket_description # <<>> THEN micromarket_description
    ELSE city_description

create_docxFallbackOnCity(city_description, micromarket_description) ==
    LET combined_text == CombinedText(city_description, micromarket_description)
    IN  IF city_description = <<>>
        THEN [fallback |-> TRUE,
              paragraphs |-> <<Paragraph(NoDescriptionsAvailable, "Normal", FALSE, NormalPt)>>]
        ELSE [fallback |-> FALSE, paragraphs |-> EmitLines(SplitLines(combined_text))]

create_docx(city_description, micromarket_description) ==
    LET combined_text == CombinedText(city_description, micromarket_description)
    IN  IF combined_text = <<>>
        THEN [fallback |-> TRUE,
              paragraphs |-> <<Paragraph(NoDescriptionsAvailable, "Normal", FALSE, NormalPt)>>]
        ELSE [fallback |-> FALSE, paragraphs |-> EmitLines(SplitLines(combined_text))]

(***************************************************************************)
(* SpecDocx: one call of create_docx, on two blocks of up to MaxBlockPieces *)
(* pieces each, or on one block of up to MaxTextLen tokens.                 *)
(***************************************************************************)
MaxBlockPieces == 2
MaxTextLen == 5

BlockPieces ==
    { BoldMarker, BulletMarker, <<"a">>, <<" ">>, <<"\n">>, NoDescriptionsAvailable }

Blocks == {Flatten(ps) : ps \in SeqsUpTo(BlockPieces, MaxBlockPieces)}

DocChars == {"*", "-", " ", "\n", "a"}

Texts == SeqsUpTo(DocChars, MaxTextLen)

DocxRecord(city_description, micromarket_description) ==
    [fn |-> "create_docx",
     city_description |-> city_description,
     micromarket_description |-> micromarket_description,
     doc |-> create_docx(city_description, micromarket_description)]

CreateDocxBlocks ==
    /\ docx = DocxIdle
    /\ \E city_description \in Blocks, micromarket_description \in Blocks :
          docx' = DocxRecord(city_description, micromarket_description)
    /\ UNCHANGED <<gen, csv, appVars>>

CreateDocxText ==
    /\ docx = DocxIdle
    /\ \E city_description \in Texts :
          docx' = DocxRecord(city_description, <<>>)
    /\ UNCHANGED <<gen, csv, appVars>>

InitDocx == InitGen

NextDocx ==
    \/ CreateDocxBlocks
    \/ CreateDocxText

SpecDocx == InitDocx /\ [][NextDocx]_vars

(***************************************************************************)
(* Properties of create_docx (SpecDocx).                                   *)
(***************************************************************************)
Rendered == docx.fn = "create_docx"

BothEmpty == docx.city_description = <<>> /\ docx.micromarket_description = <<>>

\* The trimmed non-blank lines of the two blocks, in order.
RECURSIVE TrimmedLines(_)
TrimmedLines(lines) ==
    IF lines = <<>> THEN <<>>
    ELSE IF Strip(Head(lines)) = <<>> THEN TrimmedLines(Tail(lines))
    ELSE <<Strip(Head(lines))>> \o TrimmedLines(Tail(lines))

InputLines ==
    TrimmedLines(SplitLines(docx.city_description))
    \o TrimmedLines(SplitLines(docx.micromarket_description))

\* C6: create_docx given no block or two empty blocks takes the fallback
\* branch and returns exactly one paragraph, "No descriptions available.";
\* given at least one non-empty block it does not take that branch.
C6_FallbackOnlyWhenEmpty ==
    Rendered =>
        /\ BothEmpty =>
              /\ docx.doc.fallback
              /\ docx.doc.paragraphs =
                    <<[text |-> NoDescriptionsAvailable, style |-> "Normal",
                       bold |-> FALSE, size |-> NormalPt]>>
        /\ ~BothEmpty =>
              /\ ~docx.doc.fallback
              /\ Len(docx.doc.paragraphs) = Len(InputLines)

C6_Witness ==
    /\ Rendered
    /\ BothEmpty
    /\ docx.doc.fallback
    /\ Len(docx.doc.paragraphs) = 1
    /\ docx.doc.paragraphs[1].text = NoDescriptionsAvailable

\* Heading as the claim defines it.
MarkedHeading(line) ==
    /\ StartsWith(line, BoldMarker)
    /\ EndsWith(line, BoldMarker)
    /\ Len(line) >= 4

\* C7: a trimmed line is emitted as a heading (bold) exactly when it starts
\* and ends with the bold marker and has at least 4 characters; the heading
\* paragraph is bold, 14 points, and its text is the line without the two
\* markers and holds no marker character.
C7_HeadingLines ==
    (Rendered /\ ~BothEmpty) =>
        \A k \in 1..Len(InputLines) :
            /\ k \in DOMAIN docx.doc.paragraphs
            /\ docx.doc.paragraphs[k].bold <=> MarkedHeading(InputLines[k])
            /\ MarkedHeading(InputLines[k]) =>
                  /\ docx.doc.paragraphs[k].size = HeadingPt
                  /\ docx.doc.paragraphs[k].text =
                        SubSeq(InputLines[k], 3, Len(InputLines[k]) - 2)
                  /\ \A i \in DOMAIN docx.doc.paragraphs[k].text :
                        docx.doc.paragraphs[k].text[i] # "*"

\* C8 as stated: the text of a bullet paragraph is exactly the rest of the
\* trimmed line after the dash and the space.
C8_BulletTextIsRemainder ==
    (Rendered /\ ~BothEmpty) =>
        \A k \in 1..Len(InputLines) :
            StartsWith(InputLines[k], BulletMarker) =>
                /\ k \in DOMAIN docx.doc.paragraphs
                /\ docx.doc.paragraphs[k] =
                      [text |-> SubSeq(InputLines[k], 3, Len(InputLines[k])),
                       style |-> "List Bullet", bold |-> FALSE, size |-> NormalPt]

\* C8 as amended: every trimmed line that starts with a dash and a space (no
\* such line is a heading) is emitted as one list-bullet paragraph, not bold,
\* whose text is the rest of the line after that prefix with the whitespace
\* at its start removed.
C8_BulletTextIsTrimmedRemainder ==
    (Rendered /\ ~BothEmpty) =>
        \A k \in 1..Len(InputLines) :
            StartsWith(InputLines[k], BulletMarker) =>
                /\ ~(StartsWith(InputLines[k], BoldMarker))
                /\ k \in DOMAIN docx.doc.paragraphs
                /\ docx.doc.paragraphs[k] =
                      [text |-> LStrip(SubSeq(InputLines[k], 3, Len(InputLines[k]))),
                       style |-> "List Bullet", bold |-> FALSE, size |-> NormalPt]

C8_Witness ==
    /\ Rendered
    /\ docx.city_description = <<"-", " ", " ", "a">>
    /\ docx.doc.paragraphs =
          <<[text |-> <<"a">>, style |-> "List Bullet", bold |-> FALSE, size |-> NormalPt]>>

\* C9: for two non-empty blocks the paragraphs are those of the city block
\* rendered alone followed by those of the micro market block rendered alone,
\* and nothing else; a single non-empty block gives the paragraphs of that
\* block rendered alone, whichever of the two places it is given in.
C9_BlocksInOrder ==
    Rendered =>
        /\ (docx.city_description # <<>> /\ docx.micromarket_description # <<>>) =>
              /\ docx.doc.paragraphs =
                    create_docx(docx.city_description, <<>>).paragraphs
                    \o create_docx(docx.micromarket_description, <<>>).paragraphs
              /\ Len(docx.doc.paragraphs) = Len(InputLines)
        /\ (docx.city_description = <<>> /\ docx.micromarket_description # <<>>) =>
              docx.doc = create_docx(docx.micromarket_description, <<>>)
        /\ (docx.city_description # <<>> /\ docx.micromarket_description = <<>>) =>
              docx.doc = create_docx(<<>>, docx.city_description)

C9_Witness ==
    /\ Rendered
    /\ docx.city_description = <<"*", "*", "a">>
    /\ docx.micromarket_description = <<"-", " ", "a">>
    /\ docx.doc.paragraphs =
          <<[text |-> <<"*", "*", "a">>, style |-> "Normal", bold |-> FALSE,
             size |-> NormalPt],
            [text |-> <<"a">>, style |-> "List Bullet", bold |-> FALSE,
             size |-> NormalPt]>>

\* One paragraph for each non-blank line, in line order, none for a blank one.
OneParagraphPerLine == Len(docx.doc.paragraphs) = Len(InputLines)

\* The paragraph of a line is the one the line gives when rendered alone.
ClassByLineAlone ==
    \A k \in 1..Len(InputLines) :
        /\ k \in DOMAIN docx.doc.paragraphs
        /\ docx.doc.paragraphs[k] = EmitLine(InputLines[k])

\* A line that is no heading and no bullet is a plain paragraph, whole.
PlainLinesWhole ==
    \A k \in 1..Len(InputLines) :
        (~MarkedHeading(InputLines[k]) /\ ~StartsWith(InputLines[k], BulletMarker)) =>
            /\ k \in DOMAIN docx.doc.paragraphs
            /\ docx.doc.paragraphs[k] =
                  [text |-> InputLines[k], style |-> "Normal", bold |-> FALSE,
                   size |-> NormalPt]

\* C11: for any text create_docx emits exactly one paragraph per non-blank
\* line, in line order, and none for a blank line; the paragraph of a line
\* depends on that line's trimmed text alone; and a line that is neither
\* blank, heading nor bullet is a plain paragraph holding the whole trimmed
\* line.
C11_ParagraphPerLine ==
    (Rendered /\ ~BothEmpty) =>
        /\ OneParagraphPerLine
        /\ ClassByLineAlone
        /\ PlainLinesWhole

(***************************************************************************)
(* The CSV helpers.  A table is None or a sequence of rows; a cell is NaN   *)
(* (pandas reads an empty cell as NaN) or a string.                         *)
(***************************************************************************)
NaN == [nan |-> TRUE]
Str(s) == [nan |-> FALSE, s |-> s]

NoTable == [loaded |-> FALSE, rows |-> <<>>]
Table(rows) == [loaded |-> TRUE, rows |-> rows]

\* df[column].unique().tolist(): the values in order of first appearance.
RECURSIVE Unique(_, _)
Unique(values, seen) ==
    IF values = <<>> THEN <<>>
    ELSE IF Head(values) \in seen THEN Unique(Tail(values), seen)
    ELSE <<Head(values)>> \o Unique(Tail(values), seen \cup {Head(values)})

Column(rows, column) == [i \in 1..Len(rows) |-> rows[i][column]]

\* The order of str: by code point, a proper prefix first.
Rank(tok) == CASE tok = " " -> 32 [] tok = "A" -> 65 [] tok = "B" -> 66

RECURSIVE StrLess(_, _)
StrLess(a, b) ==
    IF b = <<>> THEN FALSE
    ELSE IF a = <<>> THEN TRUE
    ELSE IF Rank(Head(a)) # Rank(Head(b)) THEN Rank(Head(a)) < Rank(Head(b))
    ELSE StrLess(Tail(a), Tail(b))

Range(list) == {list[i] : i \in 1..Len(list)}

RECURSIVE SortedStrs(_)
SortedStrs(cells) ==
    IF cells = {} THEN <<>>
    ELSE LET least == CHOOSE c \in cells : \A d \in cells \ {c} : StrLess(c.s, d.s)
         IN  <<least>> \o SortedStrs(cells \ {least})

\* sorted(list) of a list without duplicates: comparing NaN (a float) with a
\* str raises TypeError; a list of one element is compared with nothing.
Sorted(list) ==
    IF NaN \in Range(list) /\ Len(list) >= 2
    THEN [kind |-> "raise", exc |-> "TypeError"]
    ELSE IF NaN \in Range(list) THEN [kind |-> "return", value |-> list]
    ELSE [kind |-> "return", value |-> SortedStrs(Range(list))]

Returned(list) == [kind |-> "return", value |-> list]

\* pd.notna(loc) and str(loc).strip()
NotBlank(cell) == ~cell.nan /\ Strip(cell.s) # <<>>

\* src/app.py
get_cities_from_csv(df) ==
    IF df.loaded THEN Sorted(Unique(Column(df.rows, "CItyName"), {}))
    ELSE Returned(<<>>)

get_micromarkets_from_csv(df, city) ==
    IF df.loaded /\ city # <<>>
    THEN LET rows == SelectSeq(df.rows, LAMBDA r : r["CItyName"] = Str(city))
         IN  Sorted(Unique(Column(rows, "micromarket"), {}))
    ELSE Returned(<<>>)

get_localities_from_csv(df, city, micromarket) ==
    IF df.loaded /\ city # <<>> /\ micromarket # <<>>
    THEN LET rows == SelectSeq(df.rows,
                               LAMBDA r : /\ r["CItyName"] = Str(city)
                                          /\ r["micromarket"] = Str(micromarket))
             localities == SelectSeq(Unique(Column(rows, "locality"), {}), NotBlank)
         IN  Sorted(localities)
    ELSE Returned(<<>>)

\* src/ap.py
ap_get_cities_from_csv(df) ==
    IF df.loaded
    THEN LET cities == SelectSeq(Unique(Column(df.rows, "CItyName"), {}), NotBlank)
         IN  Sorted(cities)
    ELSE Returned(<<>>)

(***************************************************************************)
(* SpecCsv: one call of a CSV helper on any table of up to MaxRows rows.    *)
(***************************************************************************)
MaxRows == 2

Cells == {NaN, Str(<<" ">>), Str(<<"A">>), Str(<<"B">>)}

Rows == [{"CItyName", "micromarket", "locality"} -> Cells]

Tables == {NoTable} \cup {Table(rows) : rows \in SeqsUpTo(Rows, MaxRows)}

Selections == {<<>>, <<"A">>, <<"B">>}

CsvRecord(fn, df, city, micromarket, result) ==
    [fn |-> fn, df |-> df, city |-> city, micromarket |-> micromarket,
     result |-> result]

GetCities ==
    /\ csv = CsvIdle
    /\ \E df \in Tables :
          csv' = CsvRecord("get_cities_from_csv", df, <<>>, <<>>,
                           get_cities_from_csv(df))
    /\ UNCHANGED <<gen, docx, appVars>>

GetMicromarkets ==
    /\ csv = CsvIdle
    /\ \E df \in Tables, city \in Selections :
          csv' = CsvRecord("get_micromarkets_from_csv", df, city, <<>>,
                           get_micromarkets_from_csv(df, city))
    /\ UNCHANGED <<gen, docx, appVars>>

GetLocalities ==
    /\ csv = CsvIdle
    /\ \E df \in Tables, city \in Selections, micromarket \in Selections :
          csv' = CsvRecord("get_localities_from_csv", df, city, micromarket,
                           get_localities_from_csv(df, city, micromarket))
    /\ UNCHANGED <<gen, docx, appVars>>

GetCitiesAp ==
    /\ csv = CsvIdle
    /\ \E df \in Tables :
          csv' = CsvRecord("ap.get_cities_from_csv", df, <<>>, <<>>,
                           ap_get_cities_from_csv(df))
    /\ UNCHANGED <<gen, docx, appVars>>

InitCsv == InitGen

NextCsv ==
    \/ GetCities
    \/ GetMicromarkets
    \/ GetLocalities
    \/ GetCitiesAp

SpecCsv == InitCsv /\ [][NextCsv]_vars

(***************************************************************************)
(* Properties of the CSV helpers (SpecCsv).                                *)
(***************************************************************************)
\* C10: every list a CSV helper returns has no duplicate, is sorted
\* ascending and holds no blank or missing entry, for every table; and
\* computing it never fails.
C10_DistinctSortedNonBlank ==
    csv.fn # "none" =>
        /\ csv.result.kind = "return"
        /\ \A i \in DOMAIN csv.result.value :
              /\ ~csv.result.value[i].nan
              /\ Strip(csv.result.value[i].s) # <<>>
        /\ \A i, j \in DOMAIN csv.result.value :
              i < j => StrLess(csv.result.value[i].s, csv.result.value[j].s)

(***************************************************************************)
(* Spec: the two Streamlit scripts.  Every interaction reruns main(); a     *)
(* submission that is accepted calls a generation function, which blocks    *)
(* the script while the request is with the collaborator (pc = "calling").  *)
(* What a run computes and shows (gen, shown, docx) is that run's own: the  *)
(* next run starts without it; st.session_state alone is kept.              *)
(***************************************************************************)
AppCities == { <<>>, <<"Gurgaon">> }

AppMicromarkets == { <<>>, <<"Golf Course Road">> }

AppLocalities == { <<>>, << <<"Sector 54">> >> }

AppPrompts ==
    { <<"{", "city", "}">>,
      <<"{", "city", "}", "{", "micromarket", "}", "{", "localities", "}">>,
      <<"{", "x", "}">> }

ManualCities == { <<>>, <<" ">>, <<" ", "Noida", " ">> }

SelectedCities == { <<>>, <<"Delhi">> }

TimeFrames == {"Weekly (7 days)", "Daily (24 hours)"}

Slots ==
    {"city_description", "city_name", "micromarket_description",
     "micromarket_name", "micro_city_name", "localities"}

\* st.session_state.get(slot, default)
Get(slot, default) == IF slot \in DOMAIN session THEN session[slot] ELSE default

AssignReplacing(new) == new

\* st.session_state[slot] = value, for each slot of the mapping new
Assign(new) ==
    [slot \in DOMAIN session \cup DOMAIN new |->
        IF slot \in DOMAIN new THEN new[slot] ELSE session[slot]]

StartCall(fn, prompt, city, micromarket, localities, start_date) ==
    [fn |-> fn, prompt |-> prompt, city |-> city, micromarket |-> micromarket,
     localities |-> localities, start_date |-> start_date]

\* app.py, after create_city_description has ended: lines 282-288
CityEnded(prompt, city, outcome) ==
    LET call == create_city_description(prompt, city, outcome)
    IN  /\ gen' = GenRecord("create_city_description", prompt, city, <<>>,
                            NoLocalities, outcome, call)
        /\ IF call.result.kind = "return"
           THEN /\ session' = Assign([slot \in {"city_description", "city_name"} |->
                                        IF slot = "city_description"
                                        THEN call.result.value ELSE city])
                /\ shown' = [app |-> "app.py", kind |-> "markdown",
                             text |-> call.result.value]
           ELSE /\ session' = session
                /\ shown' = [app |-> "app.py", kind |-> "exception", text |-> call.result.msg]
        /\ pc' = "idle"
        /\ inflight' = inflight \ {StartCall("create_city_description", prompt, city,
                                             <<>>, <<>>, <<>>)}

\* app.py, after create_micromarket_description has ended: lines 359-372
MicromarketEnded(prompt, city, micromarket, localities, outcome) ==
    LET call == create_micromarket_description(
                    prompt, city, micromarket, [none |-> FALSE, list |-> localities],
                    outcome)
    IN  /\ gen' = GenRecord("create_micromarket_description", prompt, city,
                            micromarket, [none |-> FALSE, list |-> localities],
                            outcome, call)
        /\ IF call.result.kind = "return"
           THEN /\ session' =
                      Assign([slot \in {"micromarket_description", "micromarket_name",
                                        "micro_city_name", "localities"} |->
                                CASE slot = "micromarket_description" -> call.result.value
                                  [] slot = "micromarket_name" -> micromarket
                                  [] slot = "micro_city_name" -> city
                                  [] slot = "localities" -> localities])
                /\ shown' = [app |-> "app.py", kind |-> "markdown",
                             text |-> call.result.value]
           ELSE /\ session' = session
                /\ shown' = [app |-> "app.py", kind |-> "exception", text |-> call.result.msg]
        /\ pc' = "idle"
        /\ inflight' = inflight \ {StartCall("create_micromarket_description", prompt,
                                             city, micromarket, localities, <<>>)}

\* news_results.lower().startswith("no relevant news found")
StartsNoRelevantNews(s) ==
    s # <<>> /\ s[1] \in {"No relevant news found", "no relevant news found"}

\* ap.py, the branch on news_results: lines 170-176
NewsShown(news_results, city, start_date, end_date) ==
    IF StartsWith(news_results, <<"Error">>)
    THEN [app |-> "ap.py", kind |-> "error", text |-> news_results]
    ELSE IF news_results = <<>> \/ StartsNoRelevantNews(news_results)
    THEN [app |-> "ap.py", kind |-> "warning",
          text |-> <<"No relevant news found for specific localities in ">> \o city
                   \o <<" from ">> \o start_date \o <<" to ">> \o end_date \o <<".">>]
    ELSE [app |-> "ap.py", kind |-> "markdown", text |-> news_results]

\* ap.py, after fetch_news has ended
NewsEnded(prompt, city, start_date, outcome) ==
    LET call == fetch_news(city, start_date, Today, prompt, outcome)
    IN  /\ gen' = GenRecord("fetch_news", prompt, city, <<>>, NoLocalities, outcome, call)
        /\ shown' = IF call.result.kind = "return"
                    THEN NewsShown(call.result.value, city, start_date, Today)
                    ELSE [app |-> "ap.py", kind |-> "exception", text |-> call.result.msg]
        /\ session' = session
        /\ pc' = "idle"
        /\ inflight' = inflight \ {StartCall("fetch_news", prompt, city, <<>>, <<>>,
                                             start_date)}

\* The request is with the collaborator: the script waits inside the
\* generation function, and has stored and shown nothing of the submission.
CallingUnblocked(call) ==
    /\ pc' = "idle"
    /\ inflight' = inflight \cup {call}
    /\ gen' = GenIdle
    /\ shown' = NothingShown
    /\ session' = session

Calling(call) ==
    /\ pc' = "calling"
    /\ inflight' = inflight \cup {call}
    /\ gen' = GenIdle
    /\ shown' = NothingShown
    /\ session' = session

\* "Generate City Description" pressed with a city: the prompt is composed;
\* a fault of composing ends the call at once, otherwise the request is sent.
CitySubmit ==
    /\ pc = "idle"
    /\ \E city \in AppCities \ {<<>>}, prompt \in AppPrompts :
          /\ calls' = 1
          /\ IF Format(prompt, [n \in {<<"city">>} |-> city]).kind = "raise"
             THEN CityEnded(prompt, city, NoOutcome)
             ELSE Calling(StartCall("create_city_description", prompt, city,
                                    <<>>, <<>>, <<>>))
    /\ docx' = DocxIdle
    /\ csv' = csv

CityReturn ==
    /\ pc = "calling"
    /\ \E call \in inflight, outcome \in Outcomes :
          /\ call.fn = "create_city_description"
          /\ CityEnded(call.prompt, call.city, outcome)
    /\ UNCHANGED <<docx, csv, calls>>

\* "Generate City Description" pressed with no city: line 279 is false.
CityRejected ==
    /\ pc = "idle"
    /\ calls' = 0
    /\ gen' = GenIdle
    /\ shown' = NothingShown
    /\ docx' = DocxIdle
    /\ UNCHANGED <<csv, pc, session, inflight>>

MicromarketSubmit ==
    /\ pc = "idle"
    /\ \E micro_city \in AppCities \ {<<>>}, micromarket \in AppMicromarkets \ {<<>>},
          localities \in AppLocalities, prompt \in AppPrompts :
          /\ calls' = 1
          /\ IF Format(prompt, MicromarketFields(micro_city, micromarket,
                                                 [none |-> FALSE, list |-> localities])).kind
                = "raise"
             THEN MicromarketEnded(prompt, micro_city, micromarket, localities, NoOutcome)
             ELSE Calling(StartCall("create_micromarket_description", prompt,
                                    micro_city, micromarket, localities, <<>>))
    /\ docx' = DocxIdle
    /\ csv' = csv

MicromarketReturn ==
    /\ pc = "calling"
    /\ \E call \in inflight, outcome \in Outcomes :
          /\ call.fn = "create_micromarket_description"
          /\ MicromarketEnded(call.prompt, call.city, call.micromarket,
                              call.localities, outcome)
    /\ UNCHANGED <<docx, csv, calls>>

\* "Generate Micro Market Description" pressed without a city or without a
\* micro market: line 356 is false.
MicromarketRejected ==
    /\ pc = "idle"
    /\ \E micro_city \in AppCities, micromarket \in AppMicromarkets :
          micro_city = <<>> \/ micromarket = <<>>
    /\ calls' = 0
    /\ gen' = GenIdle
    /\ shown' = NothingShown
    /\ docx' = DocxIdle
    /\ UNCHANGED <<csv, pc, session, inflight>>

NewsCityUntrimmed(manual_city, selected_city) ==
    IF manual_city # <<>> THEN manual_city ELSE selected_city

\* ap.py line 152
NewsCity(manual_city, selected_city) ==
    IF Strip(manual_city) # <<>> THEN Strip(manual_city) ELSE selected_city

\* ap.py lines 163-166
NewsStartDate(time_frame) ==
    IF time_frame = "Weekly (7 days)" THEN WeekAgo ELSE DayAgo

NewsSubmit ==
    /\ pc = "idle"
    /\ \E manual_city \in ManualCities, selected_city \in SelectedCities,
          time_frame \in TimeFrames, prompt \in AppPrompts :
          LET city == NewsCity(manual_city, selected_city)
              start_date == NewsStartDate(time_frame)
          IN  /\ city # <<>>
              /\ calls' = 1
              /\ IF Format(prompt, NewsFields(city, start_date, Today)).kind = "raise"
                 THEN NewsEnded(prompt, city, start_date, NoOutcome)
                 ELSE Calling(StartCall("fetch_news", prompt, city, <<>>, <<>>,
                                        start_date))
    /\ docx' = DocxIdle
    /\ csv' = csv

NewsReturn ==
    /\ pc = "calling"
    /\ \E call \in inflight, outcome \in Outcomes :
          /\ call.fn = "fetch_news"
          /\ NewsEnded(call.prompt, call.city, call.start_date, outcome)
    /\ UNCHANGED <<docx, csv, calls>>

\* "Generate News Summaries" pressed with no city: line 160 is false.
NewsRejected ==
    /\ pc = "idle"
    /\ \E manual_city \in ManualCities, selected_city \in SelectedCities :
          NewsCity(manual_city, selected_city) = <<>>
    /\ calls' = 0
    /\ gen' = GenIdle
    /\ shown' = NothingShown
    /\ docx' = DocxIdle
    /\ UNCHANGED <<csv, pc, session, inflight>>

\* "Download Combined DOCX" pressed: lines 381-388
Download ==
    /\ pc = "idle"
    /\ "city_description" \in DOMAIN session \/ "micromarket_description" \in DOMAIN session
    /\ docx' = DocxRecord(Get("city_description", <<>>),
                          Get("micromarket_description", <<>>))
    /\ calls' = 0
    /\ gen' = GenIdle
    /\ shown' = NothingShown
    /\ UNCHANGED <<csv, pc, session, inflight>>

Init == InitGen

Next ==
    \/ CitySubmit
    \/ CityReturn
    \/ CityRejected
    \/ MicromarketSubmit
    \/ MicromarketReturn
    \/ MicromarketRejected
    \/ NewsSubmit
    \/ NewsReturn
    \/ NewsRejected
    \/ Download

Spec == Init /\ [][Next]_vars

(***************************************************************************)
(* Properties of the scripts (Spec).                                       *)
(***************************************************************************)
CallEnded == gen.fn # "none"

CallFailed == gen.call.raised # "none"

\* The slot the result of the ended call is stored in, if any.
DescriptionSlot ==
    CASE gen.fn = "create_city_description" -> {"city_description"}
      [] gen.fn = "create_micromarket_description" -> {"micromarket_description"}
      [] OTHER -> {}

\* C2: for every result of a generation call, the caller's branch treats it
\* as a failure if and only if the call failed: a failure is shown as an
\* error and is not stored as a description, and a text the collaborator
\* returned is not shown as an error.
C2_FailureIffBranchedOn ==
    CallEnded =>
        /\ shown.kind = "error" <=> CallFailed
        /\ CallFailed =>
              \A slot \in DescriptionSlot :
                  ~(slot \in DOMAIN session /\ session[slot] = gen.call.result.value)

\* The steps of a run: a step starts at most one call, stores nothing while
\* it leaves the call with the collaborator, and stores only as a call ends.
StoresOnlyAsCallEnds ==
    /\ Cardinality(inflight' \ inflight) <= 1
    /\ pc' = "calling" => session' = session
    /\ session' # session => gen' # GenIdle

\* C12: a submission starts at most one generation call; while that call is
\* with the collaborator nothing of the submission is stored or displayed;
\* and at no time are two generation calls in flight.
C12_OneCallAtATime ==
    /\ [](/\ Cardinality(inflight) <= 1
          /\ calls <= 1
          /\ pc = "calling" <=> inflight # NoCall
          /\ pc = "calling" => (gen = GenIdle /\ shown = NothingShown))
    /\ [][StoresOnlyAsCallEnds]_vars

C12_Witness ==
    /\ pc = "calling"
    /\ Cardinality(inflight) = 1
    /\ calls = 1
    /\ "city_description" \in DOMAIN session
    /\ shown = NothingShown

CitySlots == {"city_description", "city_name"}

MicromarketSlots ==
    {"micromarket_description", "micromarket_name", "micro_city_name", "localities"}

\* The slots of a group are all present or all absent.
InGroups ==
    /\ (CitySlots \subseteq DOMAIN session) \/ (CitySlots \cap DOMAIN session = {})
    /\ (MicromarketSlots \subseteq DOMAIN session)
          \/ (MicromarketSlots \cap DOMAIN session = {})

\* The slots of a group keep what they hold in this step.
Kept(group) ==
    \A slot \in group :
        /\ slot \in DOMAIN session' <=> slot \in DOMAIN session
        /\ slot \in DOMAIN session => session'[slot] = session[slot]

\* A step in which a call of a form ends stores its result with the names it
\* was made for; any other step keeps the slots of that form.
LatestStored ==
    /\ IF gen'.fn = "create_city_description"
       THEN /\ CitySlots \subseteq DOMAIN session'
            /\ session'["city_description"] = gen'.call.result.value
            /\ session'["city_name"] = gen'.city
       ELSE Kept(CitySlots)
    /\ IF gen'.fn = "create_micromarket_description"
       THEN /\ MicromarketSlots \subseteq DOMAIN session'
            /\ session'["micromarket_description"] = gen'.call.result.value
            /\ session'["micromarket_name"] = gen'.micromarket
            /\ session'["micro_city_name"] = gen'.city
            /\ session'["localities"] = gen'.localities.list
       ELSE Kept(MicromarketSlots)

\* C13: the session slots of app.py are set in groups (the two city slots,
\* the four micro market slots), a slot once set is never removed, and each
\* group holds the result of the latest accepted submission of its form with
\* the names that submission was made for.
C13_SlotsInGroups ==
    /\ [](InGroups /\ DOMAIN session \subseteq Slots)
    /\ [][DOMAIN session \subseteq DOMAIN session' /\ LatestStored]_vars

C13_Witness ==
    /\ DOMAIN session = Slots
    /\ gen.fn = "create_micromarket_description"
    /\ session["micromarket_description"] = gen.call.result.value
    /\ session["micromarket_name"] = <<"Golf Course Road">>
    /\ session["localities"] = << <<"Sector 54">> >>
    /\ session["city_name"] = <<"Gurgaon">>

\* The call was made with the names its form requires.
NamesGiven(call) ==
    CASE call.fn = "create_city_description" -> call.city # <<>>
      [] call.fn = "create_micromarket_description" ->
            call.city # <<>> /\ call.micromarket # <<>>
      [] call.fn = "fetch_news" ->
            /\ Strip(call.city) # <<>>
            /\ \E manual_city \in ManualCities, selected_city \in SelectedCities :
                  call.city = (IF Strip(manual_city) # <<>> THEN Strip(manual_city)
                               ELSE selected_city)

\* A step of a submission that is not accepted: no call, no slot changed.
RejectedLeavesAll ==
    calls' = 0 => (inflight' = inflight /\ gen' = GenIdle /\ session' = session)

\* A call is started only with the names its form requires.
StartedWithNames ==
    /\ \A call \in inflight' \ inflight : NamesGiven(call)
    /\ gen' # GenIdle => NamesGiven(gen')

\* The result of one form is stored without touching the slots of the other.
OtherFormKept ==
    /\ gen'.fn = "create_city_description" => Kept(MicromarketSlots)
    /\ gen'.fn = "create_micromarket_description" => Kept(CitySlots)
    /\ gen'.fn = "fetch_news" => session' = session

\* C14: a submission that lacks a required name starts no generation call
\* and leaves every session slot unchanged; an accepted city submission
\* leaves the four micro market slots unchanged and an accepted micro market
\* submission leaves the two city slots unchanged.
C14_RejectedAndFrames ==
    [][RejectedLeavesAll /\ StartedWithNames /\ OtherFormKept]_vars

C14_Witness ==
    /\ pc = "idle"
    /\ calls = 0
    /\ gen = GenIdle
    /\ docx = DocxIdle
    /\ inflight = NoCall
    /\ DOMAIN session = Slots

====
